---- MODULE Spec2Model ----
(***************************************************************************)
(* A model of the POP3 client of src/src/lib.rs: the Client struct (a      *)
(* buffered stream and the `authorized` flag), its public operations, the  *)
(* private send / read_response pair, and the peer (the POP3 server) at    *)
(* the other end of the TcpStream.                                         *)
(*                                                                         *)
(* Rust Strings are sequences of one-character strings, so that slicing    *)
(* (buffer[4..]), starts_with, ends_with, trim, split and parse are        *)
(* computed as the code computes them.                                     *)
(***************************************************************************)
EXTENDS Integers, Sequences, FiniteSets, TLC

VARIABLES
    pc,          \* position of the caller's thread: "start", "idle", "send", "first", "loop", "panicked"
    session,     \* the Client value: "none" (not constructed), "live", "consumed" (moved into quit)
    authorized,  \* Client.authorized
    authAtCall,  \* history: Client.authorized at the entry of the current call
    op,          \* the public operation being (or last) called, with its arguments
    qi,          \* which send() of the operation is in progress (login has two)
    multiline,   \* the `multiline` parameter of the read_response in progress
    sent,        \* history: the query lines written to the transport by the current call
    reads,       \* history: the number of read_line calls made by the current call
    results,     \* history: what each send()/read_response() of the current call returned
    buffer,      \* read_response's local `buffer`
    response,    \* read_response's local `response`
    result,      \* what the current call returned to its caller
    inbuf,       \* lines the peer has sent that the client has not read yet
    closed,      \* the peer has closed the connection (EOF follows inbuf)
    pending,     \* reply shapes of the commands the peer has received and not answered
    linesLeft,   \* lines the peer may still send
    conforming,  \* history: so far the peer answered every command with one well-formed reply
    lost,        \* history: lines a BufReader had taken from the socket when it was dropped
    mailbox,     \* the payload line of the steady server's listings (<<>>: no steady server)
    seen         \* history: per command, the tag of the first result the steady server's session gave

vars == <<pc, session, authorized, authAtCall, op, qi, multiline, sent, reads,
          results, buffer, response, result, inbuf, closed, pending, linesLeft,
          conforming, lost, mailbox, seen>>

peer == <<inbuf, closed, pending, linesLeft, conforming>>

-----------------------------------------------------------------------------
(* Bounds *)

\* The number of complete lines the peer sends over one connection.
MaxLines == 4

-----------------------------------------------------------------------------
(* Strings *)

CRLF == <<"\r", "\n">>
OK == <<"+", "O", "K">>
ERR == <<"-", "E", "R", "R">>
DotCRLF == <<".", "\r", "\n">>

ConnectionAborted ==
    <<"C", "o", "n", "n", "e", "c", "t", "i", "o", "n", " ", "a", "b", "o", "r", "t", "e", "d">>
WrongStage ==
    <<"l", "o", "g", "i", "n", " ", "i", "s", " ", "o", "n", "l", "y", " ", "a", "l", "l", "o", "w", "e", "d", " ", "i", "n", " ", "A", "u", "t", "h", "o", "r", "i", "z", "a", "t", "i", "o", "n", " ", "s", "t", "a", "g", "e">>
IoError ==
    <<"B", "r", "o", "k", "e", "n", " ", "p", "i", "p", "e", " ", "(", "o", "s", " ", "e", "r", "r", "o", "r", " ", "3", "2", ")">>
INVALID_REPLY ==
    <<"I", "N", "V", "A", "L", "I", "D", "_", "R", "E", "P", "L", "Y">>
ParseEmpty ==
    <<"c", "a", "n", "n", "o", "t", " ", "p", "a", "r", "s", "e", " ", "i", "n", "t", "e", "g", "e", "r", " ", "f", "r", "o", "m", " ", "e", "m", "p", "t", "y", " ", "s", "t", "r", "i", "n", "g">>
ParseInvalidDigit ==
    <<"i", "n", "v", "a", "l", "i", "d", " ", "d", "i", "g", "i", "t", " ", "f", "o", "u", "n", "d", " ", "i", "n", " ", "s", "t", "r", "i", "n", "g">>
ParseOverflow ==
    <<"n", "u", "m", "b", "e", "r", " ", "t", "o", "o", " ", "l", "a", "r", "g", "e", " ", "t", "o", " ", "f", "i", "t", " ", "i", "n", " ", "t", "a", "r", "g", "e", "t", " ", "t", "y", "p", "e">>

\* str::starts_with / str::ends_with
StartsWith(s, p) == Len(s) >= Len(p) /\ SubSeq(s, 1, Len(p)) = p
EndsWith(s, p) == Len(s) >= Len(p) /\ SubSeq(s, Len(s) - Len(p) + 1, Len(s)) = p

\* s[n..] and s[..n] for 0 <= n <= s.len(); out of that range the slice panics
From(s, n) == SubSeq(s, n + 1, Len(s))
Upto(s, n) == SubSeq(s, 1, n)

Digits == <<"0", "1", "2", "3", "4", "5", "6", "7", "8", "9">>
IsDigit(c) == \E d \in 1..10 : Digits[d] = c
DigitVal(c) == (CHOOSE d \in 1..10 : Digits[d] = c) - 1

\* format!("{}", n) of a u32
RECURSIVE Fmt(_)
Fmt(n) == IF n < 10 THEN <<Digits[n + 1]>> ELSE Fmt(n \div 10) \o <<Digits[(n % 10) + 1]>>

IsSpace(c) == c \in {" ", "\t", "\n", "\r"}

\* str::trim
RECURSIVE TrimStart(_)
TrimStart(s) == IF s # <<>> /\ IsSpace(Head(s)) THEN TrimStart(Tail(s)) ELSE s
RECURSIVE TrimEnd(_)
TrimEnd(s) == IF s # <<>> /\ IsSpace(s[Len(s)]) THEN TrimEnd(Upto(s, Len(s) - 1)) ELSE s
Trim(s) == TrimEnd(TrimStart(s))

\* str::split(c): the pieces between the occurrences of c (always at least one piece)
RECURSIVE Split(_, _)
Split(s, c) ==
    IF \E i \in 1..Len(s) : s[i] = c
    THEN LET i == CHOOSE j \in 1..Len(s) : s[j] = c /\ \A k \in 1..(j - 1) : s[k] # c
         IN  <<Upto(s, i - 1)>> \o Split(From(s, i), c)
    ELSE <<s>>

\* [&str]::join(sep)
RECURSIVE Join(_, _)
Join(parts, sep) ==
    IF parts = <<>> THEN <<>>
    ELSE IF Len(parts) = 1 THEN parts[1]
    ELSE parts[1] \o sep \o Join(Tail(parts), sep)

\* u32::MAX in decimal
U32Max == <<"4", "2", "9", "4", "9", "6", "7", "2", "9", "5">>

RECURSIVE StripZeros(_)
StripZeros(s) == IF Len(s) > 1 /\ Head(s) = "0" THEN StripZeros(Tail(s)) ELSE s

\* a > b for digit strings of the same length
RECURSIVE DigitsGreater(_, _)
DigitsGreater(a, b) ==
    IF a = <<>> THEN FALSE
    ELSE IF Head(a) # Head(b) THEN DigitVal(Head(a)) > DigitVal(Head(b))
    ELSE DigitsGreater(Tail(a), Tail(b))

\* The checked multiply-and-add of the parse overflows: the number exceeds u32::MAX
Overflows(d) ==
    LET z == StripZeros(d)
    IN  Len(z) > Len(U32Max) \/ (Len(z) = Len(U32Max) /\ DigitsGreater(z, U32Max))

RECURSIVE DecVal(_, _)
DecVal(s, acc) == IF s = <<>> THEN acc ELSE DecVal(Tail(s), acc * 10 + DigitVal(Head(s)))

Ok(v) == [tag |-> "Ok", val |-> v]
Err(m) == [tag |-> "Err", val |-> m]
Panic == [tag |-> "Panic", val |-> <<>>]
None == [tag |-> "None", val |-> <<>>]
Unit == <<>>

\* str::parse::<u32>().map_err(|e| e.to_string())
ParseU32(s) ==
    LET d == IF s # <<>> /\ Head(s) = "+" /\ Len(s) > 1 THEN Tail(s) ELSE s
    IN  IF s = <<>> THEN Err(ParseEmpty)
        ELSE IF \E i \in 1..Len(d) : ~IsDigit(d[i]) THEN Err(ParseInvalidDigit)
        ELSE IF Overflows(d) THEN Err(ParseOverflow)
        ELSE Ok(DecVal(d, 0))

-----------------------------------------------------------------------------
(* The public operations and their command lines *)

\* Arguments the caller passes
Usernames == {<<"a">>}
Passwords == {<<"p">>}
Digests == {<<"d">>}
MsgNums == {12}
TopLines == {0}

AuthOps == {"login", "apop"}
MailboxOps == {"stat", "list", "retr", "dele", "noop", "rset", "top", "uidl"}

\* Option<u32> is a sequence of at most one number
Calls ==
         {[name |-> "login", arg |-> <<u, p>>] : u \in Usernames, p \in Passwords}
    \cup {[name |-> "apop", arg |-> <<u, d>>] : u \in Usernames, d \in Digests}
    \cup {[name |-> n, arg |-> <<>>] : n \in {"quit", "stat", "noop", "rset"}}
    \cup {[name |-> n, arg |-> <<>>] : n \in {"list", "uidl"}}
    \cup {[name |-> n, arg |-> <<m>>] : n \in {"list", "uidl", "retr", "dele"}, m \in MsgNums}
    \cup {[name |-> "top", arg |-> <<m, k>>] : m \in MsgNums, k \in TopLines}

Connect == [name |-> "connect", arg |-> <<>>]

Verb(name) ==
    CASE name = "login" -> <<"U", "S", "E", "R">>
      [] name = "apop" -> <<"A", "P", "O", "P">>
      [] name = "quit" -> <<"Q", "U", "I", "T">>
      [] name = "stat" -> <<"S", "T", "A", "T">>
      [] name = "list" -> <<"L", "I", "S", "T">>
      [] name = "retr" -> <<"R", "E", "T", "R">>
      [] name = "dele" -> <<"D", "E", "L", "E">>
      [] name = "noop" -> <<"N", "O", "O", "P">>
      [] name = "rset" -> <<"R", "S", "E", "T">>
      [] name = "top" -> <<"T", "O", "P">>
      [] name = "uidl" -> <<"U", "I", "D", "L">>

\* The query string of the i-th send() of operation c
Query(c, i) ==
    CASE c.name = "login" ->
            IF i = 1 THEN Verb("login") \o <<" ">> \o c.arg[1] \o CRLF
            ELSE <<"P", "A", "S", "S", " ">> \o c.arg[2] \o CRLF
      [] c.name = "apop" -> Verb("apop") \o <<" ">> \o c.arg[1] \o <<" ">> \o c.arg[2] \o CRLF
      [] c.name \in {"list", "uidl"} ->
            IF c.arg # <<>> THEN Verb(c.name) \o <<" ">> \o Fmt(c.arg[1]) \o CRLF
            ELSE Verb(c.name) \o CRLF
      [] c.name \in {"retr", "dele"} -> Verb(c.name) \o <<" ">> \o Fmt(c.arg[1]) \o CRLF
      [] c.name = "top" -> Verb("top") \o <<" ">> \o Fmt(c.arg[1]) \o <<" ">> \o Fmt(c.arg[2]) \o CRLF
      [] OTHER -> Verb(c.name) \o CRLF

\* The `multiline` argument of the i-th send() of operation c
Multiline(c, i) ==
    CASE c.name \in {"list", "uidl"} -> c.arg = <<>>
      [] c.name \in {"retr", "top"} -> TRUE
      [] OTHER -> FALSE

\* login's guard is missing from apop
StageError_login_only(name, auth) == name = "login" /\ auth
\* The early return of login and apop: `if self.authorized { return Err(..) }`
StageError(name, auth) == name \in AuthOps /\ auth

\* A failed send is tried once more
Continue_retry(name, i, res) ==
    \/ name = "login" /\ i = 1 /\ res.tag = "Ok"
    \/ i = 1 /\ res.tag = "Err"
\* login goes on to PASS whatever send(USER) returned
Continue_unconditional(name, i, res) == name = "login" /\ i = 1
\* login's and_then: the second send() runs only when the first returned Ok
Continue(name, i, res) == name = "login" /\ i = 1 /\ res.tag = "Ok"

\* `authorized = true` set whatever the last send returned
Grants_any_result(name, i, res) ==
    \/ name = "login" /\ i = 2
    \/ name = "apop"
\* `authorized = true` already after the reply to USER
Grants_after_user(name, i, res) == name \in AuthOps /\ res.tag = "Ok"
\* `self.authorized = true` in the map over send(PASS) / send(APOP)
Grants(name, i, res) ==
    /\ res.tag = "Ok"
    /\ \/ name = "login" /\ i = 2
       \/ name = "apop"

\* quit borrows the client instead of taking it
Consumes_nothing(name) == FALSE
\* quit(mut self) takes the Client by value; every other operation borrows it
Consumes(name) == name = "quit"

\* stat's parse of the payload
StatParse(s) ==
    LET parts == Split(Trim(s), " ")
        first == ParseU32(parts[1])
        second == IF Len(parts) >= 2 THEN ParseU32(parts[2]) ELSE Err(INVALID_REPLY)
    IN  IF first.tag = "Err" THEN first
        ELSE IF second.tag = "Err" THEN second
        ELSE Ok(<<first.val, second.val>>)

\* retr's s.split('\n').skip(1).collect::<Vec<&str>>().join("\n")
SkipFirstLine(s) == Join(Tail(Split(s, "\n")), <<"\n">>)

\* What the operation returns, from what its last send() returned
Finish(c, res) ==
    IF res.tag # "Ok" THEN res
    ELSE CASE c.name \in {"login", "quit", "noop"} -> Ok(Unit)
           [] c.name = "stat" -> StatParse(res.val)
           [] c.name = "retr" -> Ok(SkipFirstLine(res.val))
           [] OTHER -> res

-----------------------------------------------------------------------------
(* read_response *)

\* The status marker is not looked at: every first line counts as positive
FirstLine_marker_ignored(buf) == IF Len(buf) < 4 THEN Panic ELSE Ok(From(buf, 4))

\* The status line: Ok(buffer[4..]) or Err(buffer or buffer[5..])
FirstLine(buf) ==
    IF StartsWith(buf, OK)
    THEN IF Len(buf) < 4 THEN Panic ELSE Ok(From(buf, 4))
    ELSE Err(IF Len(buf) < 6 THEN buf ELSE From(buf, 5))

\* read_line hands out the line and leaves it in the stream
Consumed_nothing(stream) == stream
\* What read_line leaves of the stream: the line it returned is taken out
Consumed(stream) == Tail(stream)

\* A read error inside the loop taken for the end of the data
ZeroRead_end_of_data(resp) == Ok(resp)
\* read_line returned 0 bytes: the peer has closed the connection
ZeroRead(resp) == Err(ConnectionAborted)

\* The loop condition of the multi-line read, on the line last read
LastLine(buf) == EndsWith(buf, DotCRLF)

\* What the multi-line loop appends for a line
Appended(buf) == Upto(buf, Len(buf) - (IF EndsWith(buf, DotCRLF) THEN 3 ELSE 0))

-----------------------------------------------------------------------------
(* The peer: the server at the other end of the TcpStream *)

\* Complete lines (each is what one read_line returns)
PosLine == OK \o <<" ", "a">> \o CRLF
PosDotLine == OK \o <<" ", "a", ".">> \o CRLF
NegLine == ERR \o <<" ", "x">> \o CRLF
StuffedLine == <<".", ".", "b">> \o CRLF
ByeDotLine == <<"b", ".">> \o CRLF
PlainLine == <<"b">> \o CRLF

Lines == {PosLine, PosDotLine, NegLine, DotCRLF, StuffedLine, ByeDotLine, PlainLine}

\* Bytes with no line end, which read_line returns only when EOF follows them
Fragments == {OK, ERR}

\* The non-empty sequences of at most n lines of L
RepliesOf(L, n) == UNION {[1..k -> L] : k \in 1..n}
Replies(n) == RepliesOf(Lines, n)

\* A status line "<marker> <text>\r\n"
IsPositive(l) == StartsWith(l, OK \o <<" ">>) /\ EndsWith(l, CRLF)
IsNegative(l) == StartsWith(l, ERR \o <<" ">>) /\ EndsWith(l, CRLF)

\* A payload line of a multi-line reply, as the server escapes it
IsPayload(l) == EndsWith(l, CRLF) /\ (Head(l) = "." => StartsWith(l, <<".", ".">>))

\* One well-formed reply of the shape the command expects
WellFormed(r, shape) ==
    \/ Len(r) = 1 /\ IsNegative(r[1])
    \/ shape = "single" /\ Len(r) = 1 /\ IsPositive(r[1])
    \/ /\ shape = "multi"
       /\ Len(r) >= 2
       /\ IsPositive(r[1])
       /\ r[Len(r)] = DotCRLF
       /\ \A i \in 2..(Len(r) - 1) : IsPayload(r[i])

Shape(ml) == IF ml THEN "multi" ELSE "single"

\* The server answers the oldest unanswered command (or greets) with lines of L
ServerSends(L) ==
    /\ pending # <<>>
    /\ ~closed
    /\ linesLeft > 0
    /\ \E r \in RepliesOf(L, linesLeft) :
        /\ inbuf' = inbuf \o r
        /\ linesLeft' = linesLeft - Len(r)
        /\ conforming' = (conforming /\ WellFormed(r, Head(pending)))
    /\ pending' = Tail(pending)
    /\ UNCHANGED <<pc, session, authorized, authAtCall, op, qi, multiline, sent,
                   reads, results, buffer, response, result, closed, lost, mailbox, seen>>

ServerReply == ServerSends(Lines)

\* The server closes the connection, possibly after an unfinished line of F
ServerCloses(F) ==
    /\ pc # "start"
    /\ ~closed
    /\ closed' = TRUE
    /\ conforming' = FALSE
    /\ \E f \in F \cup {<<>>} :
        inbuf' = IF f = <<>> THEN inbuf ELSE Append(inbuf, f)
    /\ UNCHANGED <<pc, session, authorized, authAtCall, op, qi, multiline, sent,
                   reads, results, buffer, response, result, pending, linesLeft,
                   lost, mailbox, seen>>

ServerClose == ServerCloses(Fragments)

-----------------------------------------------------------------------------
(* The client *)

\* The commands repeated against the steady server
SteadyCalls == {c \in Calls : c.name \in {"noop", "stat", "list"}}

\* The first result of command c on an authenticated session of the steady
\* server is noted
Noted(s, c, res) ==
    IF mailbox # <<>> /\ authAtCall /\ c \in SteadyCalls /\ s[c] = "none"
    THEN [s EXCEPT ![c] = res.tag]
    ELSE s

Init ==
    /\ pc = "start"
    /\ session = "none"
    /\ authorized = FALSE
    /\ authAtCall = FALSE
    /\ op = Connect
    /\ qi = 1
    /\ multiline = FALSE
    /\ sent = <<>>
    /\ reads = 0
    /\ results = <<>>
    /\ buffer = <<>>
    /\ response = <<>>
    /\ result = None
    /\ inbuf = <<>>
    /\ closed = FALSE
    /\ pending = <<>>
    /\ linesLeft = MaxLines
    /\ conforming = TRUE
    /\ lost = <<>>
    /\ mailbox = <<>>
    /\ seen = [c \in SteadyCalls |-> "none"]

\* A send() or read_response() of the current call returns res: the and_then /
\* map chain of the operation goes on to its next send() or returns to the caller
Return(res) ==
    /\ results' = Append(results, res)
    /\ IF res.tag = "Panic"
       THEN /\ pc' = "panicked"
            /\ UNCHANGED <<session, authorized, qi, result, seen>>
       ELSE IF op.name = "connect"
       THEN /\ pc' = "idle"
            /\ session' = IF res.tag = "Ok" THEN "live" ELSE "none"
            /\ result' = IF res.tag = "Ok" THEN Ok(Unit) ELSE res
            /\ UNCHANGED <<authorized, qi, seen>>
       ELSE /\ authorized' = (authorized \/ Grants(op.name, qi, res))
            /\ IF Continue(op.name, qi, res)
               THEN /\ pc' = "send"
                    /\ qi' = qi + 1
                    /\ UNCHANGED <<session, result, seen>>
               ELSE /\ pc' = "idle"
                    /\ result' = Finish(op, res)
                    /\ seen' = Noted(seen, op, Finish(op, res))
                    /\ UNCHANGED <<session, qi>>

\* connect_notls: TcpStream::connect, Client { authorized: false }, read_response(false)
connect_notls ==
    /\ pc = "start"
    /\ op' = Connect
    /\ \/ /\ pc' = "first"
          /\ pending' = <<"single">>
          /\ UNCHANGED <<closed, result>>
       \/ /\ pc' = "idle"
          /\ closed' = TRUE
          /\ result' = Err(IoError)
          /\ UNCHANGED pending
    /\ authorized' = FALSE
    /\ multiline' = FALSE
    /\ UNCHANGED <<session, authAtCall, qi, sent, reads, results, buffer, response,
                   inbuf, linesLeft, conforming, lost, mailbox, seen>>

\* The caller invokes a public operation on its Client
Call(c) ==
    /\ pc = "idle"
    /\ session = "live"
    /\ op' = c
    /\ authAtCall' = authorized
    /\ session' = IF Consumes(c.name) THEN "consumed" ELSE session
    /\ qi' = 1
    /\ multiline' = FALSE
    /\ sent' = <<>>
    /\ reads' = 0
    /\ results' = <<>>
    /\ buffer' = <<>>
    /\ response' = <<>>
    /\ IF StageError(c.name, authorized)
       THEN pc' = "idle" /\ result' = Err(WrongStage)
       ELSE pc' = "send" /\ result' = None
    /\ UNCHANGED <<authorized, peer, lost, mailbox, seen>>

\* send: write_all(query) and, when it succeeded, enter read_response(multiline)
send ==
    /\ pc = "send"
    /\ \/ /\ sent' = Append(sent, Query(op, qi))
          /\ pending' = IF closed THEN pending ELSE Append(pending, Shape(Multiline(op, qi)))
          /\ multiline' = Multiline(op, qi)
          /\ buffer' = <<>>
          /\ response' = <<>>
          /\ pc' = "first"
          /\ UNCHANGED <<session, authorized, qi, results, result, seen>>
       \/ /\ closed
          /\ Return(Err(IoError))
          /\ UNCHANGED <<sent, pending, multiline, buffer, response>>
    /\ UNCHANGED <<authAtCall, op, reads, inbuf, closed, linesLeft, conforming, lost, mailbox>>

\* read_response up to the loop: read_line, the zero-length check, the status line
read_response ==
    /\ pc = "first"
    /\ inbuf # <<>> \/ closed
    /\ reads' = reads + 1
    /\ IF inbuf = <<>>
       THEN /\ Return(ZeroRead(response))
            /\ UNCHANGED <<buffer, response, inbuf>>
       ELSE LET line == Head(inbuf)
                first == FirstLine(line)
            IN  /\ buffer' = line
                /\ inbuf' = Consumed(inbuf)
                /\ IF first.tag # "Ok"
                   THEN Return(first) /\ UNCHANGED response
                   ELSE IF ~multiline
                   THEN Return(first) /\ UNCHANGED response
                   ELSE /\ response' = first.val
                        /\ IF LastLine(line)
                           THEN Return(Ok(first.val))
                           ELSE /\ pc' = "loop"
                                /\ UNCHANGED <<session, authorized, qi, results, result, seen>>
    /\ UNCHANGED <<authAtCall, op, multiline, sent, closed, pending, linesLeft, conforming,
                   lost, mailbox>>

\* One iteration of the multi-line loop of read_response, with the test of its
\* condition that follows
read_more ==
    /\ pc = "loop"
    /\ inbuf # <<>> \/ closed
    /\ reads' = reads + 1
    /\ IF inbuf = <<>>
       THEN /\ Return(ZeroRead(response))
            /\ buffer' = <<>>
            /\ UNCHANGED <<response, inbuf>>
       ELSE LET line == Head(inbuf)
            IN  /\ buffer' = line
                /\ inbuf' = Consumed(inbuf)
                /\ response' = response \o Appended(line)
                /\ IF LastLine(line)
                   THEN Return(Ok(response \o Appended(line)))
                   ELSE /\ pc' = "loop"
                        /\ UNCHANGED <<session, authorized, qi, results, result, seen>>
    /\ UNCHANGED <<authAtCall, op, multiline, sent, closed, pending, linesLeft, conforming,
                   lost, mailbox>>

Next ==
    \/ connect_notls
    \/ \E c \in Calls : Call(c)
    \/ send
    \/ read_response
    \/ read_more
    \/ ServerReply
    \/ ServerClose

Spec == Init /\ [][Next]_vars

-----------------------------------------------------------------------------
(* Reply reads of a running thread: single-line and multi-line *)

ReadCalls == {c \in Calls : c.name = "list"}

NextRead ==
    \/ connect_notls
    \/ \E c \in ReadCalls : Call(c)
    \/ send
    \/ read_response
    \/ read_more
    \/ ServerReply
    \/ ServerClose

\* The caller's thread runs: a read_line that can return does return
SpecRead == Init /\ [][NextRead]_vars /\ WF_vars(read_response) /\ WF_vars(read_more)

-----------------------------------------------------------------------------
(* stat against a server that answers with status-count lines *)

StatPayloads == {<<"2", " ", "3", "4", "0">>, <<"2", " ", "a", "b", "c">>, <<"2">>, <<>>}
StatLines == {OK \o <<" ">> \o p \o CRLF : p \in StatPayloads} \cup {NegLine}

\* Negative replies whose line end never arrives: the text of the two errors
\* the client itself makes up
StatFragments == {ERR \o <<" ">> \o INVALID_REPLY, ERR \o <<" ">> \o ConnectionAborted}

StatCalls == {c \in Calls : c.name \in {"stat", "noop"}}

NextStat ==
    \/ connect_notls
    \/ \E c \in StatCalls : Call(c)
    \/ send
    \/ read_response
    \/ ServerSends(StatLines)
    \/ ServerCloses(StatFragments)

SpecStat == Init /\ [][NextStat]_vars

-----------------------------------------------------------------------------
(* connect: the two builds, connect_notls and connect_rustls (feature "with-rustls") *)

DNS_NAMEREF_FAILED ==
    <<"D", "N", "S", "_", "N", "A", "M", "E", "R", "E", "F", "_", "F", "A", "I", "L", "E", "D">>
STLSLine == <<"S", "T", "L", "S">> \o CRLF
ConnectTls == [name |-> "connect_rustls", arg |-> <<>>]

\* The marker is not looked at: every greeting and every STLS reply counts as positive
Unchecked_marker_ignored(buf) == IF Len(buf) < 4 THEN Panic ELSE Ok(From(buf, 4))

\* connect_rustls's reading of a line: buf[4..] or buf[5..], whatever read_line returned
Unchecked(buf) ==
    IF StartsWith(buf, OK)
    THEN IF Len(buf) < 4 THEN Panic ELSE Ok(From(buf, 4))
    ELSE IF Len(buf) < 5 THEN Panic ELSE Err(From(buf, 5))

\* connect_rustls up to its first read: the DNS name, TcpStream::connect, BufReader::new
connect_rustls ==
    /\ pc = "start"
    /\ op' = ConnectTls
    /\ \/ /\ pc' = "greet"
          /\ pending' = <<"single">>
          /\ UNCHANGED <<closed, result>>
       \/ /\ pc' = "idle"
          /\ closed' = TRUE
          /\ result' \in {Err(DNS_NAMEREF_FAILED), Err(IoError)}
          /\ UNCHANGED pending
    /\ authorized' = FALSE
    /\ multiline' = FALSE
    /\ UNCHANGED <<session, authAtCall, qi, sent, reads, results, buffer, response,
                   inbuf, linesLeft, conforming, lost, mailbox, seen>>

\* connect_rustls: read_line of the greeting, its slicing, and the write of STLS
read_greeting ==
    /\ pc = "greet"
    /\ inbuf # <<>> \/ closed
    /\ reads' = reads + 1
    /\ LET line == IF inbuf = <<>> THEN <<>> ELSE Head(inbuf)
           first == Unchecked(line)
       IN  /\ buffer' = line
           /\ inbuf' = IF inbuf = <<>> THEN inbuf ELSE Tail(inbuf)
           /\ results' = Append(results, first)
           /\ CASE first.tag = "Panic" ->
                     /\ pc' = "panicked"
                     /\ UNCHANGED <<sent, pending, result>>
                [] first.tag = "Err" ->
                     /\ pc' = "idle"
                     /\ result' = first
                     /\ UNCHANGED <<sent, pending>>
                [] OTHER ->
                     \/ /\ sent' = Append(sent, STLSLine)
                        /\ pending' = IF closed THEN pending ELSE Append(pending, "single")
                        /\ pc' = "stls"
                        /\ UNCHANGED result
                     \/ /\ closed
                        /\ pc' = "idle"
                        /\ result' = Err(IoError)
                        /\ UNCHANGED <<sent, pending>>
    /\ UNCHANGED <<session, authorized, authAtCall, op, qi, multiline, response, closed,
                   linesLeft, conforming, lost, mailbox, seen>>

\* connect_rustls: read_line of the reply to STLS, its slicing, into_inner (which
\* drops what the BufReader holds beyond the line), StreamOwned::new, Client { .. }
read_stls_reply ==
    /\ pc = "stls"
    /\ inbuf # <<>> \/ closed
    /\ reads' = reads + 1
    /\ LET line == IF inbuf = <<>> THEN <<>> ELSE Head(inbuf)
           rest == IF inbuf = <<>> THEN inbuf ELSE Tail(inbuf)
           reply == Unchecked(line)
       IN  /\ buffer' = line
           /\ results' = Append(results, reply)
           /\ CASE reply.tag = "Panic" ->
                     /\ pc' = "panicked"
                     /\ inbuf' = rest
                     /\ UNCHANGED <<session, authorized, result, lost>>
                [] reply.tag = "Err" ->
                     /\ pc' = "idle"
                     /\ result' = reply
                     /\ inbuf' = rest
                     /\ UNCHANGED <<session, authorized, lost>>
                [] OTHER ->
                     /\ \E k \in 0..Len(rest) :
                           /\ lost' = SubSeq(rest, 1, k)
                           /\ inbuf' = SubSeq(rest, k + 1, Len(rest))
                     /\ session' = "live"
                     /\ authorized' = FALSE
                     /\ pc' = "idle"
                     /\ result' = Ok(Unit)
    /\ UNCHANGED <<authAtCall, op, qi, multiline, sent, response, closed, pending,
                   linesLeft, conforming, mailbox, seen>>

NextConnect ==
    \/ connect_notls
    \/ connect_rustls
    \/ read_response
    \/ read_greeting
    \/ read_stls_reply
    \/ ServerReply
    \/ ServerClose

SpecConnect == Init /\ [][NextConnect]_vars

-----------------------------------------------------------------------------
(* A deterministic server with an unchanging mailbox *)

MaxSteadyLines == 8

\* The texts the one payload line of a listing may have
Mailboxes == {PlainLine, StuffedLine, ByeDotLine}

SteadyStatus == OK \o <<" ", "2", " ", "3", "4", "0">> \o CRLF

\* The reply to a command: it depends on the command's shape and the mailbox only
SteadyReply(shape) ==
    IF shape = "single" THEN <<SteadyStatus>> ELSE <<SteadyStatus, mailbox, DotCRLF>>

\* The steady server answers the oldest unanswered command (or greets)
ServerSteady ==
    /\ pending # <<>>
    /\ ~closed
    /\ LET r == SteadyReply(Head(pending))
       IN  /\ Len(r) <= linesLeft
           /\ inbuf' = inbuf \o r
           /\ linesLeft' = linesLeft - Len(r)
           /\ conforming' = (conforming /\ WellFormed(r, Head(pending)))
    /\ pending' = Tail(pending)
    /\ UNCHANGED <<pc, session, authorized, authAtCall, op, qi, multiline, sent,
                   reads, results, buffer, response, result, closed, lost, mailbox, seen>>

InitSteady ==
    /\ pc = "start"
    /\ session = "none"
    /\ authorized = FALSE
    /\ authAtCall = FALSE
    /\ op = Connect
    /\ qi = 1
    /\ multiline = FALSE
    /\ sent = <<>>
    /\ reads = 0
    /\ results = <<>>
    /\ buffer = <<>>
    /\ response = <<>>
    /\ result = None
    /\ inbuf = <<>>
    /\ closed = FALSE
    /\ pending = <<>>
    /\ linesLeft = MaxSteadyLines
    /\ conforming = TRUE
    /\ lost = <<>>
    /\ mailbox \in Mailboxes
    /\ seen = [c \in SteadyCalls |-> "none"]

NextSteady ==
    \/ connect_notls
    \/ \E c \in SteadyCalls \cup {c \in Calls : c.name = "login"} : Call(c)
    \/ send
    \/ read_response
    \/ read_more
    \/ ServerSteady

SpecSteady == InitSteady /\ [][NextSteady]_vars

-----------------------------------------------------------------------------
(* Properties *)

LastResult == results[Len(results)]
UserLine(c) == <<"U", "S", "E", "R", " ">> \o c.arg[1] \o CRLF
PassLine(c) == <<"P", "A", "S", "S", " ">> \o c.arg[2] \o CRLF
QuitLine == <<"Q", "U", "I", "T", "\r", "\n">>

\* A step of the client (the peer leaves inbuf and closed alone only in no step)
ClientStep == inbuf' = inbuf /\ closed' = closed /\ pending' = pending

C2_AuthWhenAuthorizedIsLocalError ==
    (op.name \in AuthOps /\ authAtCall) =>
        /\ pc = "idle"
        /\ result.tag = "Err"
        /\ sent = <<>>
        /\ reads = 0
        /\ authorized

C2_Witness ==
    /\ op.name \in AuthOps
    /\ authAtCall
    /\ pc = "idle"
    /\ result = Err(WrongStage)

\* C3: in login the PASS line is written only as the second line, after the
\* USER line was written and send(USER) returned Ok (a positive reply was read);
\* when send(USER) failed (write error, negative reply, connection closed) the
\* call is over with at most the USER line written.
C3_PassOnlyAfterUserAccepted ==
    /\ \A i \in 1..Len(sent) :
          StartsWith(sent[i], <<"P", "A", "S", "S">>) =>
              /\ op.name = "login"
              /\ i = 2
              /\ sent[1] = UserLine(op)
              /\ sent[2] = PassLine(op)
              /\ Len(results) >= 1
              /\ results[1].tag = "Ok"
              /\ reads >= 1
    /\ (op.name = "login" /\ Len(results) >= 1 /\ results[1].tag # "Ok") =>
          /\ Len(sent) <= 1
          /\ \A i \in 1..Len(sent) : sent[i] = UserLine(op)
          /\ pc \in {"idle", "panicked"}

C3_Witness ==
    /\ op.name = "login"
    /\ Len(sent) = 2
    /\ sent[2] = PassLine(op)
    /\ results[1].tag = "Ok"

\* C4: when a login or apop called on an unauthenticated session has returned
\* an error, the session is still unauthenticated, and a login or apop called
\* next is not rejected locally: it goes on to write its command.
C4_FailedAuthCanBeRetried ==
    [][ (pc = "idle" /\ session = "live" /\ op.name \in AuthOps /\ ~authAtCall
            /\ result.tag = "Err") =>
           /\ ~authorized
           /\ (ClientStep /\ op'.name \in AuthOps) =>
                 (pc' = "send" /\ result' = None /\ ~authAtCall') ]_vars

C4_Witness ==
    /\ pc = "idle"
    /\ session = "live"
    /\ op.name = "login"
    /\ ~authAtCall
    /\ Len(sent) = 2
    /\ result.tag = "Err"
    /\ ~authorized

\* C5: the session is created unauthenticated; `authorized` changes only from
\* false to true, and only in the step in which the last send of a login (the
\* one for PASS) or of an apop, called on an unauthenticated session, returns
\* Ok; no mailbox operation changes it.
C5_StageOnlyAdvances ==
    [][ /\ op'.name = "connect" => ~authorized'
        /\ authorized => authorized'
        /\ authorized' # authorized =>
              /\ op.name \in AuthOps
              /\ ~authAtCall
              /\ pc = "first"
              /\ qi = (IF op.name = "login" THEN 2 ELSE 1)
              /\ Len(sent) = qi
              /\ results'[Len(results')].tag = "Ok"
              /\ pc' = "idle"
              /\ result'.tag = "Ok"
        /\ op'.name \in MailboxOps => authorized' = authAtCall' ]_vars

C5_Witness ==
    /\ authorized
    /\ op.name \in MailboxOps
    /\ pc = "idle"
    /\ result.tag = "Err"

\* C6: quit is never rejected locally, in either stage: it goes on to write its
\* command; it writes the QUIT line once and, when the write succeeded, reads
\* one line in single-line mode; once quit has been called the Client is gone,
\* and after quit has returned nothing more is written or read.
C6_QuitAnyStageAndConsumes ==
    [][ /\ (pc = "idle" /\ session = "live" /\ ClientStep /\ op'.name = "quit") =>
              (pc' = "send" /\ result' = None /\ session' = "consumed")
        /\ op.name = "quit" =>
              /\ session = "consumed"
              /\ ~multiline
              /\ Len(sent) <= 1
              /\ \A i \in 1..Len(sent) : sent[i] = QuitLine
              /\ reads <= Len(sent)
              /\ pc = "idle" => (reads = Len(sent) /\ (sent = <<>> => result = Err(IoError)))
        /\ (session = "consumed" /\ pc = "idle") =>
              UNCHANGED <<pc, session, op, sent, reads, results, result, authorized>> ]_vars

C6_Witness ==
    /\ op.name = "quit"
    /\ session = "consumed"
    /\ authAtCall
    /\ pc = "idle"
    /\ sent = <<QuitLine>>
    /\ reads = 1

\* C7: a single-line read of "+OK <text>\r\n" returns exactly <text>.
C7_SingleLinePayloadIsText ==
    (/\ pc \in {"idle", "send"}
     /\ ~multiline
     /\ reads >= 1
     /\ results # <<>>
     /\ LastResult.tag = "Ok"
     /\ StartsWith(buffer, OK \o <<" ">>)
     /\ EndsWith(buffer, CRLF)) =>
        LastResult.val = SubSeq(buffer, 5, Len(buffer) - 2)

\* C8: in the multi-line loop a line beginning with two dots is appended with
\* one dot stripped, and a line not beginning with a dot is appended unchanged.
C8_DotUnstuffing ==
    [][ (pc = "loop" /\ reads' = reads + 1 /\ inbuf # <<>>) =>
           LET line == Head(inbuf)
           IN  /\ StartsWith(line, <<".", ".">>) => response' = response \o Tail(line)
               /\ Head(line) # "." => response' = response \o line ]_vars

\* C9: a multi-line read that returns Ok has read, after the status line, lines
\* up to one that is exactly ".\r\n", and that line was the last one it read.
C9_EndsOnlyAtTerminatorLine ==
    (/\ pc = "idle"
     /\ multiline
     /\ results # <<>>
     /\ LastResult.tag = "Ok") =>
        /\ buffer = DotCRLF
        /\ reads >= 2

\* C10: while the server has answered every command with one well-formed reply
\* of the expected shape, no line of a reply is left unread when an operation
\* returns or when the next command is about to be written.
C10_StreamAtReplyBoundary ==
    (conforming /\ pc \in {"idle", "send"}) => inbuf = <<>>

\* C11: a first line that is not positive ends the reply read at once, in
\* multi-line mode as in single-line mode: only that line is taken from the
\* stream and the operation returns the error carrying the line's text.
C11_NegativeReturnsAtOnce ==
    [][ (pc = "first" /\ inbuf # <<>> /\ ~StartsWith(Head(inbuf), OK)
            /\ reads' = reads + 1) =>
           LET line == Head(inbuf)
           IN  /\ pc' = "idle"
               /\ inbuf' = Tail(inbuf)
               /\ result'.tag = "Err"
               /\ result'.val = (IF Len(line) < 6 THEN line ELSE SubSeq(line, 6, Len(line))) ]_vars

C11_Witness ==
    /\ pc = "idle"
    /\ op.name \in {"list", "uidl", "retr", "top"}
    /\ multiline
    /\ reads = 1
    /\ result = Err(<<"x", "\r", "\n">>)
    /\ inbuf # <<>>

\* C12: a zero-length read inside the multi-line loop (after the positive status
\* line and any payload lines) makes the operation return "Connection aborted".
C12_AbortedMultilineIsError ==
    [][ (pc = "loop" /\ inbuf = <<>> /\ closed /\ reads' = reads + 1) =>
           /\ pc' = "idle"
           /\ result'.tag = "Err"
           /\ result'.val = ConnectionAborted ]_vars

C12_Witness ==
    /\ pc = "idle"
    /\ multiline
    /\ reads >= 3
    /\ response = <<"a", "\r", "\n", "b", "\r", "\n">>
    /\ result = Err(ConnectionAborted)

\* C14: reading a reply never panics, and a first line shorter than the
\* marker-plus-space prefix comes back verbatim as the failure message.
C14_ShortLineNeverPanics ==
    /\ pc # "panicked"
    /\ (pc = "idle" /\ reads >= 1 /\ results # <<>> /\ buffer # <<>> /\ Len(buffer) < 4) =>
          LastResult = Err(buffer)

\* C16: retr and top read in multi-line mode and return the reassembled payload
\* without its first line.
C16_RetrAndTopDropFirstLine ==
    (pc = "idle" /\ op.name \in {"retr", "top"} /\ results # <<>> /\ results[1].tag = "Ok") =>
        /\ multiline
        /\ result = Ok(SkipFirstLine(results[1].val))

\* C17: list and uidl write the verb, then a space and the number in decimal
\* only when a number is given, then CRLF; with a number they read exactly one
\* line, without one they read in multi-line mode up to the terminator line.
C17_ListUidlSingleOrMulti ==
    op.name \in {"list", "uidl"} =>
        /\ Len(sent) <= 1
        /\ \A i \in 1..Len(sent) :
              LET verb == IF op.name = "list" THEN <<"L", "I", "S", "T">>
                          ELSE <<"U", "I", "D", "L">>
                  rest == SubSeq(sent[i], 5, Len(sent[i]) - 2)
              IN  /\ StartsWith(sent[i], verb)
                  /\ EndsWith(sent[i], <<"\r", "\n">>)
                  /\ IF op.arg = <<>> THEN rest = <<>>
                     ELSE /\ Len(rest) >= 2
                          /\ Head(rest) = " "
                          /\ Head(Tail(rest)) \notin {"+", "0"}
                          /\ ParseU32(Tail(rest)) = Ok(op.arg[1])
        /\ sent # <<>> => (multiline <=> op.arg = <<>>)
        /\ op.arg # <<>> =>
              /\ pc # "loop"
              /\ reads <= Len(sent)
              /\ pc = "idle" => reads = Len(sent)
        /\ (op.arg = <<>> /\ pc = "idle" /\ result.tag = "Ok") =>
              /\ buffer = <<".", "\r", "\n">>
              /\ reads >= 2

\* C19: a call writes each of its command lines at most once (login: one USER
\* line, then at most one PASS line), and the first send that fails ends the
\* call: its error is what the caller gets and nothing more is written.
C19_NoRetry ==
    /\ Len(sent) <= (IF op.name = "login" THEN 2 ELSE 1)
    /\ Len(sent) = 2 =>
          /\ StartsWith(sent[1], <<"U", "S", "E", "R">>)
          /\ StartsWith(sent[2], <<"P", "A", "S", "S">>)
    /\ Len(sent) <= Len(results) + 1
    /\ \A i \in 1..Len(results) :
          results[i].tag = "Err" =>
              /\ i = Len(results)
              /\ pc = "idle"
              /\ result = results[i]
              /\ Len(sent) <= i

C19_Witness ==
    /\ op.name = "login"
    /\ pc = "idle"
    /\ Len(sent) = 2
    /\ Len(results) = 2
    /\ results[2].tag = "Err"
    /\ result = results[2]

\* C13: the error of a zero-byte read is returned only for a zero-byte read: no
\* line the server sends, ended by CRLF or cut short by EOF, makes an operation
\* return "Connection aborted".
C13_AbortDistinctFromNegative ==
    (pc = "idle" /\ reads >= 1 /\ LastResult = Err(<<"C", "o", "n", "n", "e", "c", "t", "i", "o", "n", " ",
                                                    "a", "b", "o", "r", "t", "e", "d">>)) =>
        buffer = <<>>

\* C15: stat returns the pair for "2 340", an error and no panic for "2 abc",
\* "2" and "", and no negative reply of the server gives the error of a payload
\* that does not parse.
C15_StatParsesOrInvalidReply ==
    /\ pc # "panicked"
    /\ (pc = "idle" /\ op.name = "stat" /\ results # <<>>) =>
          LET first == results[1]
              text == IF first.tag = "Ok" THEN SubSeq(first.val, 1, Len(first.val) - 2) ELSE <<>>
          IN  /\ (first.tag = "Ok" /\ text = <<"2", " ", "3", "4", "0">>) => result = Ok(<<2, 340>>)
              /\ (first.tag = "Ok" /\ text \in {<<"2", " ", "a", "b", "c">>, <<"2">>, <<>>}) =>
                    result.tag = "Err"
              /\ (first.tag = "Err" /\ StartsWith(buffer, <<"-", "E", "R", "R">>)) =>
                    result \notin {StatParse(p \o CRLF) : p \in StatPayloads}

\* C20: connect (either build) returns a session only after a positive greeting
\* and, with the upgrade, a positive reply to STLS; in every other case it
\* returns an error and no session; nothing is written before the greeting is read.
C20_ConnectAllOrNothing ==
    op.name \in {"connect", "connect_rustls"} =>
        LET needed == IF op.name = "connect" THEN 1 ELSE 2
            accepted == /\ Len(results) = needed
                        /\ \A i \in 1..needed : results[i].tag = "Ok"
        IN  /\ session # "none" => accepted
            /\ sent # <<>> => (reads >= 1 /\ results[1].tag = "Ok")
            /\ pc # "panicked"
            /\ (pc = "idle" /\ ~accepted) => (result.tag = "Err" /\ session = "none")

\* C18: on an authenticated session of the deterministic server, every
\* repetition of noop, stat, list(None) or list(Some(n)) returns with the same
\* Ok/Err tag as the first time that command returned.
C18_SameClassification ==
    (pc = "idle" /\ authAtCall /\ op \in SteadyCalls /\ result.tag \in {"Ok", "Err"}) =>
        seen[op] = result.tag

\* C21: in the upgrading connect nothing that the plaintext reader took from
\* the socket beyond the reply line to STLS is discarded: all of it is still
\* there for the TLS layer when the session is returned.
C21_NothingLostAtUpgrade ==
    (op.name = "connect_rustls" /\ session = "live") => lost = <<>>

\* C22: the upgrading connect reads a positive greeting, then writes the one
\* STLS line, then reads one positive reply line, then layers TLS on the socket:
\* STLS is never written after a greeting that is not positive, and no session
\* is built after a reply that is not positive.
C22_UpgradeStepsInOrder ==
    op.name = "connect_rustls" =>
        /\ Len(sent) <= 1
        /\ reads <= 2
        /\ pc = "greet" => (sent = <<>> /\ reads = 0 /\ session = "none")
        /\ sent # <<>> =>
              /\ sent = <<<<"S", "T", "L", "S", "\r", "\n">>>>
              /\ reads >= 1
              /\ pc \in {"stls", "idle", "panicked"}
        /\ pc = "stls" =>
              /\ sent # <<>>
              /\ reads = 1
              /\ StartsWith(buffer, <<"+", "O", "K">>)
              /\ session = "none"
        /\ session # "none" =>
              /\ pc = "idle"
              /\ sent # <<>>
              /\ reads = 2
              /\ StartsWith(buffer, <<"+", "O", "K">>)
              /\ Len(results) = 2
              /\ results[1].tag = "Ok"

C22_Witness ==
    /\ op.name = "connect_rustls"
    /\ pc = "idle"
    /\ session = "live"
    /\ reads = 2
    /\ sent = <<<<"S", "T", "L", "S", "\r", "\n">>>>
    /\ result.tag = "Ok"

\* C23: every read_line of a reply read takes one line out of the stream or
\* finds the stream exhausted, and then the read ends with "Connection aborted";
\* the loop is left only that way or with success on the line its test accepts;
\* so once the stream is finite (the peer has closed) every reply read ends.
C23_ReplyReadTerminates ==
    /\ [][ (pc \in {"first", "loop"} /\ reads' = reads + 1) =>
              \/ /\ inbuf # <<>>
                 /\ Len(inbuf') = Len(inbuf) - 1
                 /\ pc' \in {"loop", "idle", "send", "panicked"}
                 /\ (pc = "loop" /\ pc' # "loop") =>
                        (results'[Len(results')].tag = "Ok" /\ EndsWith(buffer', <<".", "\r", "\n">>))
              \/ /\ inbuf = <<>>
                 /\ closed
                 /\ pc' = "idle"
                 /\ result' = Err(<<"C", "o", "n", "n", "e", "c", "t", "i", "o", "n", " ",
                                   "a", "b", "o", "r", "t", "e", "d">>) ]_vars
    /\ (closed /\ pc \in {"first", "loop"}) ~> (pc \notin {"first", "loop"})

C23_Witness ==
    /\ pc = "idle"
    /\ multiline
    /\ closed
    /\ reads = 4
    /\ inbuf = <<>>
    /\ result.tag = "Err"

\* C24: in a multi-line read the payload starts as the status line's text after
\* the marker, every line read before the terminator line ".\r\n" is appended to
\* it whole and the read goes on, and at the terminator line the payload is
\* returned as collected; list(None), uidl(None) and top return it unchanged.
C24_PayloadIsEveryLineInOrder ==
    [][ (pc \in {"first", "loop"} /\ multiline /\ reads' = reads + 1 /\ inbuf # <<>>) =>
           LET line == Head(inbuf)
               terminator == <<".", "\r", "\n">>
           IN  /\ (pc = "first" /\ StartsWith(line, <<"+", "O", "K">>) /\ Len(line) >= 4) =>
                     /\ response' = SubSeq(line, 5, Len(line))
                     /\ pc' = "loop"
               /\ (pc = "loop" /\ line # terminator) =>
                     /\ response' = response \o line
                     /\ pc' = "loop"
               /\ (pc = "loop" /\ line = terminator) =>
                     /\ response' = response
                     /\ pc' = "idle"
                     /\ op.name \in {"list", "uidl", "top"} => result' = Ok(response) ]_vars

====
